---------------------------- MODULE Spec2Model ----------------------------
(***************************************************************************)
(* quinn-h3: the body I/O adapters (body.rs) and the server-side request   *)
(* machines (server.rs) above an external multi-stream transport.          *)
(*                                                                         *)
(* An Option<T> of the source is a sequence of length 0 (None) or 1        *)
(* (Some(x) is <<x>>).  A byte payload is a sequence of byte values.       *)
(* A handle (RecvRequest, Sender, RecvBody, BodyReader, BodyWriter) lives  *)
(* in the slot of its stream_id field; the receive half it polls is named  *)
(* by its own field rs.                                                    *)
(***************************************************************************)
EXTENDS Integers, Sequences, FiniteSets, TLC

(* ------------------------------ bounds --------------------------------- *)

\* Bidirectional streams of the connection.
NumStreams == 2

\* Frames the peer sends on one stream, and frames written on one stream.
MaxFrames == 2

\* Payload bytes of one DATA frame the peer sends (0 .. MaxPayload).
MaxPayload == 2

\* Length of the buffer a caller hands to poll_read / poll_write (0 .. MaxBuf).
MaxBuf == 2

Streams == 1..NumStreams

BufSizes == 0..MaxBuf

(* ------------------------------ helpers -------------------------------- *)

None == <<>>

Some(x) == <<x>>

Min(a, b) == IF a <= b THEN a ELSE b

\* Bytes a .. b of a stream's byte sequence: the peer numbers the bytes it
\* sends on a stream 1, 2, 3, ... so that loss, duplication and reordering show.
Bytes(a, b) == [i \in 1..(b - a + 1) |-> a + i - 1]

(* --------------------------- error codes ------------------------------- *)

REQUEST_CANCELLED == "REQUEST_CANCELLED"

REQUEST_REJECTED == "REQUEST_REJECTED"

FRAME_UNEXPECTED == "FRAME_UNEXPECTED"

\* The code a frame decode error carries (FrameError::code()).
FRAME_ERROR == "FRAME_ERROR"

(* ------------------------------- state --------------------------------- *)

VARIABLES
    recvd,         \* per stream: the frames and payload bytes the FrameStream has yielded,
                   \*   and whether anything but DATA frames was among them
    fin,           \* per stream: the FrameStream has reported the end of the stream
    recvReset,     \* per stream: the reset codes issued on the receive half
    sent,          \* per stream: the frames written on the send half
    sendFin,       \* per stream: the send half has been finished
    sendReset,     \* per stream: the reset codes issued on the send half
    requests,      \* the connection's pending-request queue of (send, recv) pairs
    requests_task, \* the connection's waker slot (Option)
    finished,      \* per stream: calls of request_finished(stream_id)
    recvReq,       \* per stream: the RecvRequest future
    sender,        \* per stream: the Sender handle
    reader,        \* per stream: the RecvBody / BodyReader handle
    writer,        \* per stream: the BodyWriter handle
    acceptor,      \* the task polling IncomingRequest: "Ready", "Parked" or "Woken"
    lock,          \* the task holding the connection-state mutex (Option)
    task,          \* the task awaiting a flush or close of a BodyWriter
    obs            \* per stream: what the application has observed (history)

recvHalf == <<recvd, fin, recvReset>>

sendHalf == <<sent, sendFin, sendReset>>

conn == <<requests, requests_task, finished>>

handles == <<recvReq, sender, reader, writer>>

sched == <<acceptor, lock, task>>

vars == <<recvd, fin, recvReset, sent, sendFin, sendReset, requests,
          requests_task, finished, recvReq, sender, reader, writer, obs, acceptor, lock,
          task>>

(* ----------------------- frames on the transport ----------------------- *)

\* The frames the peer may send next on stream t: a DATA frame of 0 ..
\* MaxPayload bytes, a HEADERS frame, or a frame of another type.  The peer
\* numbers its frames and its payload bytes.
NextFrames(t) ==
    {[kind |-> k, sid |-> t, seq |-> recvd[t].frames + 1,
      payload |-> Bytes(recvd[t].bytes + 1, recvd[t].bytes + len)] :
        <<k, len>> \in ({"Data"} \X (0..MaxPayload)) \cup ({"Headers", "Other"} \X {0})}

\* What FrameStream::poll_next may answer on the receive half of stream t:
\* Pending when the transport has nothing yet, the next frame the peer sent,
\* a frame decode error, or the end of the stream (and then nothing else).
Arrivals(t) ==
    IF fin[t] THEN {[poll |-> "End", frame |-> None, code |-> ""]}
    ELSE {[poll |-> "Pending", frame |-> None, code |-> ""],
          [poll |-> "End", frame |-> None, code |-> ""]}
         \cup (IF recvd[t].frames < MaxFrames
                THEN {[poll |-> "Frame", frame |-> Some(f), code |-> ""] : f \in NextFrames(t)}
                     \cup {[poll |-> "Err", frame |-> None, code |-> FRAME_ERROR]}
                ELSE {})

\* The receive half of a stream after its FrameStream answered p.
Yielded(rc, p) ==
    IF p.poll \in {"Frame", "Err"}
    THEN [frames |-> rc.frames + 1,
          bytes |-> rc.bytes + (IF p.frame = None THEN 0 ELSE Len(p.frame[1].payload)),
          nondata |-> rc.nondata \/ p.frame = None \/ p.frame[1].kind # "Data"]
    ELSE rc

\* The stream ids of the frames in an Option<frame>.
Sids(c) == {c[i].sid : i \in 1..Len(c)}

(* --------------------------- connection state -------------------------- *)

\* h3.lock().unwrap() by task who: the holder of the mutex afterwards (the
\* call blocks while another task holds it).
Locked(l, who) == IF l = None THEN Some(who) ELSE l

\* A critical section whose guard outlives the step that took it.
Unlocked_Held(l) == l

\* The MutexGuard going out of scope at the end of its statement or block.
Unlocked(l) == None

\* A critical section of task who: the mutex is taken and released within
\* the one step.
WithLock(who) == lock = None /\ lock' = Unlocked(Locked(lock, who))

\* The critical section of a handle that calls request_finished only when it
\* carries the request-lifecycle responsibility.
LockIf(fr) == IF fr THEN WithLock("handle") ELSE UNCHANGED lock

\* inner.request_finished(stream_id) under the connection lock.
RequestFinished(fin_calls, id) == [fin_calls EXCEPT ![id] = @ + 1]

(* --------------------------- RecvBody (body.rs) ------------------------ *)

NoReader == [h |-> "None", rs |-> 0, recv |-> FALSE, trailers |-> None,
             buf |-> None, finish_request |-> FALSE]

\* What remains of a reading handle once it has been consumed or dropped.
Gone(r) == [r EXCEPT !.h = "Gone", !.recv = FALSE]

\* RecvBody::new over the receive half of stream t.
NewRecvBody(t, fr) == [h |-> "RecvBody", rs |-> t, recv |-> TRUE, trailers |-> None,
                       buf |-> None, finish_request |-> fr]

\* A BodyReader::new handed the receive half of the connection's first stream.
NewBodyReader_First(t, fr) == [h |-> "BodyReader", rs |-> 1, recv |-> TRUE,
                               trailers |-> None, buf |-> None, finish_request |-> fr]

\* BodyReader::new over the receive half of stream t.
NewBodyReader(t, fr) == [h |-> "BodyReader", rs |-> t, recv |-> TRUE,
                         trailers |-> None, buf |-> None, finish_request |-> fr]

NoObs == [delivered |-> <<>>, body |-> <<>>, eod |-> FALSE, seen |-> {},
          triples |-> 0, rlast |-> "none", exit |-> "", heldAtCancel |-> FALSE,
          rexit |-> "", rfrom |-> "", sexit |-> "", wexit |-> "", wfrom |-> "",
          wout |-> "", yields |-> 0, overtook |-> FALSE]

\* RecvBody::cancel
RecvBodyCancel(s) ==
    /\ reader[s].h = "RecvBody"
    /\ recvReset' = [recvReset EXCEPT ![reader[s].rs] = Append(@, REQUEST_CANCELLED)]
    /\ finished' = IF reader[s].finish_request
                   THEN RequestFinished(finished, s) ELSE finished
    /\ reader' = [reader EXCEPT ![s] = Gone(@)]
    /\ obs' = [obs EXCEPT ![s].exit = "RecvBody::cancel", ![s].heldAtCancel = TRUE]
    /\ LockIf(reader[s].finish_request)
    /\ UNCHANGED <<recvd, fin, sendHalf, requests, requests_task, acceptor, task,
                   recvReq, sender, writer>>

\* RecvBody::into_reader
RecvBodyIntoReader(s) ==
    /\ reader[s].h = "RecvBody"
    /\ reader' = [reader EXCEPT ![s] =
                    NewBodyReader(reader[s].rs, reader[s].finish_request)]
    /\ UNCHANGED <<recvHalf, sendHalf, conn, sched, recvReq, sender, writer, obs>>

\* A RecvBody that is dropped without cancel(): the type has no Drop impl.
RecvBodyDrop(s) ==
    /\ reader[s].h = "RecvBody"
    /\ reader' = [reader EXCEPT ![s] = Gone(@)]
    /\ obs' = [obs EXCEPT ![s].exit = "RecvBody::drop"]
    /\ UNCHANGED <<recvHalf, sendHalf, conn, sched, recvReq, sender, writer>>

(* -------------------------- BodyReader (body.rs) ----------------------- *)

\* A buf_read that keeps the residual buffer in place once it is empty.
BufRead_Keep(buf, n) ==
    IF buf = None THEN [size |-> 0, bytes |-> <<>>, buf |-> None]
    ELSE LET b    == buf[1]
             size == Min(n, Len(b))
         IN  [size |-> size, bytes |-> SubSeq(b, 1, size),
              buf |-> Some(SubSeq(b, size + 1, Len(b)))]

\* BodyReader::buf_read with a caller buffer of n bytes: the bytes copied and
\* the residual buffer left (None once it is empty).
BufRead(buf, n) ==
    IF buf = None THEN [size |-> 0, bytes |-> <<>>, buf |-> None]
    ELSE LET b    == buf[1]
             size == Min(n, Len(b))
             rest == SubSeq(b, size + 1, Len(b))
         IN  [size |-> size, bytes |-> SubSeq(b, 1, size),
              buf |-> IF rest = <<>> THEN None ELSE Some(rest)]

\* The DATA branch's test for a payload that does not fit the caller's buffer.
DataSplits(len, room) == len >= room

\* The DATA branch of poll_read with `room` bytes left in the caller's buffer:
\* the bytes copied out and the tail handed to buf_put (None: buf_put not called).
DataSplit(payload, room) ==
    IF DataSplits(Len(payload), room)
    THEN [head |-> SubSeq(payload, 1, room),
          tail |-> Some(SubSeq(payload, room + 1, Len(payload)))]
    ELSE [head |-> payload, tail |-> None]

\* BodyReader::trailers on reader r: None, or the decode of the retained
\* HEADERS frame (named by its place on its stream).
TrailersResult(r) ==
    IF r.trailers = None THEN None
    ELSE Some([decoded |-> r.trailers[1].seq, sid |-> r.trailers[1].sid])

\* The HEADERS branch of poll_read: the frame is retained as the trailers.
RetainTrailers(r, f) == [r EXCEPT !.trailers = Some(f)]

\* A poll_read that reports a frame decode error without resetting.
ReadErrorReset_Silent(p) ==
    IF p.poll = "Err" THEN None ELSE Some(FRAME_UNEXPECTED)

\* The reset poll_read issues when the frame stream answers with a decode
\* error (the error's own code) or with a frame that is neither DATA nor
\* HEADERS (FRAME_UNEXPECTED).
ReadErrorReset(p) ==
    IF p.poll = "Err" THEN Some(p.code) ELSE Some(FRAME_UNEXPECTED)

\* The outcome of <BodyReader as AsyncRead>::poll_read(buf) on reader r with
\* Len(buf) = n, p being the answer of the frame stream if it is polled: the
\* reader after the call, the result, the bytes put in buf, whether the frame
\* stream was polled, and the reset issued.
PollRead(r, n, p) ==
    LET br == BufRead(r.buf, n)
        r1 == [r EXCEPT !.buf = br.buf]
    IN  IF br.size = n
        THEN [r |-> r1, out |-> "Ok", bytes |-> br.bytes, polled |-> FALSE,
              reset |-> None, err |-> ""]
        ELSE IF ~r.recv   \* self.recv.as_mut().unwrap() on None
        THEN [r |-> r1, out |-> "Panic", bytes |-> <<>>, polled |-> FALSE,
              reset |-> None, err |-> "unwrap"]
        ELSE CASE p.poll = "End" ->
                  [r |-> r1, out |-> "Ok", bytes |-> br.bytes, polled |-> TRUE,
                   reset |-> None, err |-> ""]
               [] p.poll = "Pending" ->
                  IF br.size > 0
                  THEN [r |-> r1, out |-> "Ok", bytes |-> br.bytes, polled |-> TRUE,
                        reset |-> None, err |-> ""]
                  ELSE [r |-> r1, out |-> "Err", bytes |-> <<>>, polled |-> TRUE,
                        reset |-> None, err |-> "WouldBlock"]
               [] p.poll = "Err" ->
                  [r |-> [r1 EXCEPT !.recv = FALSE], out |-> "Err", bytes |-> <<>>,
                   polled |-> TRUE, reset |-> ReadErrorReset(p), err |-> "Other"]
               [] p.poll = "Frame" /\ p.frame[1].kind = "Data" ->
                  LET d == DataSplit(p.frame[1].payload, n - br.size)
                  IN  IF d.tail # None /\ r1.buf # None   \* assert in buf_put
                      THEN [r |-> r1, out |-> "Panic", bytes |-> <<>>,
                            polled |-> TRUE, reset |-> None, err |-> "assert"]
                      ELSE [r |-> [r1 EXCEPT !.buf = IF d.tail # None THEN d.tail
                                                     ELSE r1.buf],
                            out |-> "Ok", bytes |-> br.bytes \o d.head,
                            polled |-> TRUE, reset |-> None, err |-> ""]
               [] p.poll = "Frame" /\ p.frame[1].kind = "Headers" ->
                  [r |-> RetainTrailers(r1, p.frame[1]), out |-> "Ok",
                   bytes |-> br.bytes, polled |-> TRUE, reset |-> None, err |-> ""]
               [] OTHER ->
                  [r |-> [r1 EXCEPT !.recv = FALSE], out |-> "Err", bytes |-> <<>>,
                   polled |-> TRUE, reset |-> ReadErrorReset(p),
                   err |-> "InvalidData"]

\* <BodyReader as AsyncRead>::poll_read with a buffer of n bytes.
BodyReaderPollRead(s, n) ==
    /\ reader[s].h = "BodyReader"
    /\ \E p \in Arrivals(reader[s].rs) :
        LET res == PollRead(reader[s], n, p)
            t   == reader[s].rs
            c   == IF res.polled THEN p.frame ELSE None
        IN  \* an answer that is not asked for is immaterial: one is enumerated
            /\ res.polled \/ p.poll = "End"
            /\ reader' = [reader EXCEPT ![s] = res.r]
            /\ recvd' = [recvd EXCEPT ![t] = IF res.polled THEN Yielded(@, p) ELSE @]
            /\ fin' = [fin EXCEPT ![t] = @ \/ (res.polled /\ p.poll = "End")]
            /\ recvReset' = [recvReset EXCEPT ![t] = @ \o res.reset]
            /\ obs' = [obs EXCEPT
                 ![s].delivered = @ \o res.bytes,
                 ![s].body = IF obs[s].eod THEN @ ELSE @ \o res.bytes,
                 ![s].eod = @ \/ (n > 0 /\ res.out = "Ok" /\ res.bytes = <<>>),
                 ![s].seen = @ \cup Sids(c)]
    /\ UNCHANGED <<sendHalf, conn, sched, recvReq, sender, writer>>

\* BodyReader::trailers: takes the retained HEADERS frame and decodes it.
BodyReaderTrailers(s) ==
    /\ reader[s].h = "BodyReader"
    /\ reader' = [reader EXCEPT ![s].trailers = None]
    /\ UNCHANGED <<recvHalf, sendHalf, conn, sched, recvReq, sender, writer, obs>>

\* A Drop for BodyReader that forgets the notification.
DropBodyReader_Silent(r, fin_calls, id) == fin_calls

\* impl Drop for BodyReader
DropBodyReader(r, fin_calls, id) ==
    IF r.finish_request THEN RequestFinished(fin_calls, id) ELSE fin_calls

\* The reset BodyReader::cancel issues: only if the stream is still held.
CancelReset(r) == IF r.recv THEN Some(REQUEST_CANCELLED) ELSE None

\* BodyReader::cancel: resets the stream if it is still held, then drops self.
BodyReaderCancel(s) ==
    /\ reader[s].h = "BodyReader"
    /\ recvReset' = [recvReset EXCEPT ![reader[s].rs] = @ \o CancelReset(reader[s])]
    /\ finished' = DropBodyReader(reader[s], finished, s)
    /\ reader' = [reader EXCEPT ![s] = Gone(@)]
    /\ obs' = [obs EXCEPT ![s].exit = "BodyReader::cancel",
                          ![s].heldAtCancel = reader[s].recv]
    /\ LockIf(reader[s].finish_request)
    /\ UNCHANGED <<recvd, fin, sendHalf, requests, requests_task, acceptor, task,
                   recvReq, sender, writer>>

\* A BodyReader going out of scope.
BodyReaderDrop(s) ==
    /\ reader[s].h = "BodyReader"
    /\ finished' = DropBodyReader(reader[s], finished, s)
    /\ reader' = [reader EXCEPT ![s] = Gone(@)]
    /\ obs' = [obs EXCEPT ![s].exit = "BodyReader::drop"]
    /\ LockIf(reader[s].finish_request)
    /\ UNCHANGED <<recvHalf, sendHalf, requests, requests_task, acceptor, task,
                   recvReq, sender, writer>>

(* -------------------------- BodyWriter (body.rs) ----------------------- *)

\* What the transport answers when a write, flush or finish is polled.
IoOutcomes == {"Pending", "Ready", "Err"}

NoWriter == [st |-> "None", frame |-> None, trailers |-> None, nwrites |-> 0,
             finish_request |-> FALSE]

\* BodyWriter::new
NewBodyWriter(trailers, fr) ==
    [st |-> "Idle", frame |-> None, trailers |-> trailers, nwrites |-> 0,
     finish_request |-> fr]

WriterLive(s) == writer[s].st \in {"Idle", "Writing", "Finished"}

DataFrame(s, payload) == [kind |-> "Data", sid |-> s, payload |-> payload]

HeadersFrame(s, what) == [kind |-> "Headers", sid |-> s, payload |-> <<what>>]

\* The outcome of <BodyWriter as AsyncWrite>::poll_write(buf), buf being n
\* bytes, with io the transport's answer to the poll of the frame write: the
\* writer after the call, the result, and the payload written out, if any.
PollWrite(w, n, io) ==
    LET inflight == IF w.st = "Idle" THEN Some(Bytes(1, n)) ELSE w.frame
        started  == IF w.st = "Idle" THEN w.nwrites + 1 ELSE w.nwrites
    IN  CASE w.st = "Finished" ->
               [w |-> w, out |-> "Panic", n |-> 0, wrote |-> None]
          [] io = "Ready" ->
               [w |-> [w EXCEPT !.st = "Idle", !.frame = None, !.nwrites = started],
                out |-> "Ok", n |-> n, wrote |-> inflight]
          [] OTHER ->
               [w |-> [w EXCEPT !.st = "Writing", !.frame = inflight,
                                !.nwrites = started],
                out |-> io, n |-> 0, wrote |-> None]

\* <BodyWriter as AsyncWrite>::poll_write
BodyWriterPollWrite(s, n, io) ==
    /\ WriterLive(s)
    /\ writer[s].st = "Idle" => writer[s].nwrites < MaxFrames
    /\ LET res == PollWrite(writer[s], n, io)
       IN  /\ writer' = [writer EXCEPT ![s] = res.w]
           /\ sent' = [sent EXCEPT ![s] =
                         @ \o [i \in 1..Len(res.wrote) |-> DataFrame(s, res.wrote[i])]]
    /\ UNCHANGED <<recvHalf, sendFin, sendReset, conn, sched, recvReq, sender, reader, obs>>

\* The state poll_flush and poll_close leave an idle writer in once the
\* transport has completed the flush or the finish.
AfterFlush(w) == [w EXCEPT !.st = "Finished"]

\* The outcome of poll_flush (closing = FALSE) and poll_close (closing = TRUE):
\* the writer after the call, the result, the payload written out, if any, and
\* whether the stream was finished.
PollFlushOrClose(w, io, closing) ==
    CASE w.st = "Finished" ->
           [w |-> w, out |-> "Ok", wrote |-> None, fin |-> FALSE]
      [] w.st = "Idle" ->
           IF io = "Ready"
           THEN [w |-> AfterFlush(w), out |-> "Ok", wrote |-> None, fin |-> closing]
           ELSE [w |-> w, out |-> io, wrote |-> None, fin |-> FALSE]
      [] OTHER ->
           IF io = "Ready"
           THEN [w |-> [w EXCEPT !.st = "Idle", !.frame = None], out |-> "Pending",
                 wrote |-> w.frame, fin |-> FALSE]
           ELSE [w |-> w, out |-> io, wrote |-> None, fin |-> FALSE]

\* What a poll_flush or poll_close does to the writer and its stream.
FlushOrCloseStep(s, io, closing) ==
    /\ WriterLive(s)
    /\ LET res == PollFlushOrClose(writer[s], io, closing)
       IN  /\ writer' = [writer EXCEPT ![s] = res.w]
           /\ sent' = [sent EXCEPT ![s] =
                         @ \o [i \in 1..Len(res.wrote) |-> DataFrame(s, res.wrote[i])]]
           /\ sendFin' = [sendFin EXCEPT ![s] = @ \/ res.fin]
    /\ UNCHANGED <<recvHalf, sendReset, conn, acceptor, lock, recvReq, sender,
                   reader, obs>>

\* A poll_flush or poll_close by a caller that polls whenever it likes.
FlushOrClose(s, io, closing) ==
    /\ FlushOrCloseStep(s, io, closing)
    /\ UNCHANGED task

\* <BodyWriter as AsyncWrite>::poll_flush
BodyWriterPollFlush(s, io) == FlushOrClose(s, io, FALSE)

\* <BodyWriter as AsyncWrite>::poll_close
BodyWriterPollClose(s, io) == FlushOrClose(s, io, TRUE)

(* ------------------ a task awaiting flush() or close() ----------------- *)

\* No task awaits the writer yet.  st is the task's place ("Idle": not
\* started, "Run": scheduled to poll, "Parked": suspended on a Pending,
\* "Done": the poll returned Ready), closing tells poll_close from
\* poll_flush, waker is whether the transport holds the task's waker, and
\* done whether the transport has completed the operation being polled.
NoTask == [st |-> "Idle", closing |-> FALSE, waker |-> FALSE, done |-> FALSE]

\* Whether poll_flush / poll_close leaves the task's waker with the
\* transport: the inner poll registers cx's waker exactly when it answers
\* Pending, and the Finished arm polls nothing.
FlushRegistersWaker(w, io) == w.st \in {"Idle", "Writing"} /\ io = "Pending"

\* The task starts to await flush() (closing = FALSE) or close() on writer s.
FlushStart(s, closing) ==
    /\ task.st = "Idle"
    /\ WriterLive(s)
    /\ task' = [st |-> "Run", closing |-> closing, waker |-> FALSE, done |-> FALSE]
    /\ UNCHANGED <<recvHalf, sendHalf, conn, acceptor, lock, handles, obs>>

\* The executor polls the task: poll_flush or poll_close runs once.  The
\* transport answers Pending until it has completed the operation polled;
\* a poll that returns Pending suspends the task.
TaskPoll(s) ==
    /\ task.st = "Run"
    /\ \E io \in IoOutcomes :
         /\ io = "Pending" <=> ~task.done
         /\ FlushOrCloseStep(s, io, task.closing)
         /\ task' = [task EXCEPT
                !.st = IF PollFlushOrClose(writer[s], io, task.closing).out = "Pending"
                       THEN "Parked" ELSE "Done",
                !.waker = FlushRegistersWaker(writer[s], io),
                !.done = FALSE]

\* The transport completes the operation in progress on the send half (the
\* frame write, the flush or the finish) and wakes the waker it holds.
TransportComplete ==
    /\ task.st \in {"Run", "Parked"}
    /\ ~task.done
    /\ task' = [task EXCEPT !.done = TRUE, !.waker = FALSE,
                            !.st = IF task.waker THEN "Run" ELSE @]
    /\ UNCHANGED <<recvHalf, sendHalf, conn, acceptor, lock, handles, obs>>

\* impl Drop for BodyWriter
DropBodyWriter(w, fin_calls, id) ==
    IF w.finish_request THEN RequestFinished(fin_calls, id) ELSE fin_calls

\* The writer once the handle has been consumed or dropped.
WriterGone(w) == [w EXCEPT !.st = "Gone", !.frame = None, !.trailers = None]

\* A close()/trailers() that does not look at the writer's state.
Finish_AnyState(s, w, t, io) ==
    IF io # "Ready" THEN [frames |-> <<>>, fin |-> FALSE, out |-> "Err"]
    ELSE [frames |-> [i \in 1..Len(t) |-> HeadersFrame(s, t[i])], fin |-> TRUE,
          out |-> "Ok"]

\* BodyWriter::_trailers, then finish, or finish alone (t = None), on an idle
\* writer: the frames written and whether the stream was finished, io being
\* the transport's answer.  From another state the call panics.
Finish(s, w, t, io) ==
    IF w.st # "Idle" THEN [frames |-> <<>>, fin |-> FALSE, out |-> "Panic"]
    ELSE IF io # "Ready" THEN [frames |-> <<>>, fin |-> FALSE, out |-> "Err"]
    ELSE [frames |-> [i \in 1..Len(t) |-> HeadersFrame(s, t[i])], fin |-> TRUE,
          out |-> "Ok"]

\* A terminal call of the writer: what it sends, then self is dropped (when
\* the call returns, and during unwinding when it panics).
Terminal(s, t, io, name) ==
    /\ WriterLive(s)
    /\ io # "Pending"
    /\ LET f == Finish(s, writer[s], t, io)
       IN  /\ sent' = [sent EXCEPT ![s] = @ \o f.frames]
           /\ sendFin' = [sendFin EXCEPT ![s] = @ \/ f.fin]
           /\ obs' = [obs EXCEPT ![s].wexit = name, ![s].wfrom = writer[s].st,
                                 ![s].wout = f.out]
    /\ finished' = DropBodyWriter(writer[s], finished, s)
    /\ writer' = [writer EXCEPT ![s] = WriterGone(@)]
    /\ LockIf(writer[s].finish_request)
    /\ UNCHANGED <<recvHalf, sendReset, requests, requests_task, acceptor, task,
                   recvReq,
                   sender, reader>>

\* BodyWriter::close: sends the trailers given at construction, if any, and
\* finishes the stream.
BodyWriterClose(s, io) == Terminal(s, writer[s].trailers, io, "close")

\* BodyWriter::trailers(t): sends t and finishes the stream.
BodyWriterTrailers(s, t, io) == Terminal(s, Some(t), io, "trailers")

\* A BodyWriter::cancel that forgets the frame in flight.
WriterCancelReset_IdleOnly(w) ==
    IF w.st = "Idle" THEN Some(REQUEST_CANCELLED) ELSE None

\* The reset BodyWriter::cancel issues: from the idle and the writing state.
WriterCancelReset(w) ==
    IF w.st \in {"Idle", "Writing"} THEN Some(REQUEST_CANCELLED) ELSE None

\* BodyWriter::cancel: resets the send half, then drops self.
BodyWriterCancel(s) ==
    /\ WriterLive(s)
    /\ sendReset' = [sendReset EXCEPT ![s] = @ \o WriterCancelReset(writer[s])]
    /\ finished' = DropBodyWriter(writer[s], finished, s)
    /\ writer' = [writer EXCEPT ![s] = WriterGone(@)]
    /\ obs' = [obs EXCEPT ![s].wexit = "cancel", ![s].wfrom = writer[s].st]
    /\ LockIf(writer[s].finish_request)
    /\ UNCHANGED <<recvHalf, sent, sendFin, requests, requests_task, acceptor, task,
                   recvReq,
                   sender, reader>>

\* A BodyWriter going out of scope.
BodyWriterDrop(s) ==
    /\ WriterLive(s)
    /\ finished' = DropBodyWriter(writer[s], finished, s)
    /\ writer' = [writer EXCEPT ![s] = WriterGone(@)]
    /\ obs' = [obs EXCEPT ![s].wexit = "drop", ![s].wfrom = writer[s].st]
    /\ LockIf(writer[s].finish_request)
    /\ UNCHANGED <<recvHalf, sendHalf, requests, requests_task, acceptor, task,
                   recvReq,
                   sender, reader>>

(* ------------------ connection driver and IncomingRequest -------------- *)

NoRecvRequest == [state |-> "None", rs |-> 0, streams |-> FALSE]

\* A RecvRequest::new that decodes every request from the first stream.
NewRecvRequest_Shared(pair) == [state |-> "Receiving", rs |-> 1, streams |-> FALSE]

\* RecvRequest::new(recv, send, conn): stream_id is send.id(), the frames are
\* decoded from recv.
NewRecvRequest(pair) == [state |-> "Receiving", rs |-> pair.recv, streams |-> FALSE]

\* Stream t has been accepted from the peer by the connection driver.
Accepted(t) ==
    \/ recvReq[t].state # "None"
    \/ \E i \in 1..Len(requests) : requests[i].send = t

\* The connection driver accepts the incoming bidirectional stream t and
\* enqueues its two halves: enqueue_request appends and wakes the waker.
DriverEnqueue(t) ==
    /\ ~Accepted(t)
    /\ requests' = Append(requests, [send |-> t, recv |-> t])
    /\ requests_task' = None
    /\ acceptor' = IF requests_task # None THEN "Woken" ELSE acceptor
    /\ WithLock("driver")
    /\ UNCHANGED <<recvHalf, sendHalf, finished, handles, obs, task>>

\* A pop that takes the newest pending request instead of the oldest.
PopFront_Back(q) ==
    IF q = <<>> THEN [item |-> None, rest |-> q, at |-> 0]
    ELSE [item |-> Some(q[Len(q)]), rest |-> SubSeq(q, 1, Len(q) - 1), at |-> Len(q)]

\* conn.requests.pop_front(): the item popped (None on an empty queue), the
\* queue left, and the place the item had in the queue.
PopFront(q) ==
    IF q = <<>> THEN [item |-> None, rest |-> q, at |-> 0]
    ELSE [item |-> Some(Head(q)), rest |-> Tail(q), at |-> 1]

\* A poll_next that returns Pending without leaving its waker.
RegisterWaker_Forget(slot, waker) == slot

\* conn.requests_task = Some(cx.waker().clone())
RegisterWaker(slot, waker) == Some(waker)

\* <IncomingRequest as Stream>::poll_next: pops the head of the queue into a
\* RecvRequest, or registers the waker and returns Pending.
IncomingRequestPollNext ==
    /\ LET pop == PopFront(requests)
       IN  IF pop.item # None
           THEN LET s == pop.item[1].send
                IN  /\ requests' = pop.rest
                    /\ recvReq' = [recvReq EXCEPT ![s] = NewRecvRequest(pop.item[1])]
                    /\ obs' = [obs EXCEPT ![s].yields = @ + 1,
                                          ![s].overtook = pop.at > 1]
                    /\ acceptor' = "Ready"
                    /\ UNCHANGED requests_task
           ELSE /\ requests_task' = RegisterWaker(requests_task, "acceptor")
                /\ acceptor' = "Parked"
                /\ UNCHANGED <<requests, recvReq, obs>>
    /\ WithLock("acceptor")
    /\ UNCHANGED <<recvHalf, sendHalf, finished, sender, reader, writer, task>>

(* -------------------------- RecvRequest (server.rs) -------------------- *)

\* What the header codec answers when a DecodeHeaders future is polled;
\* BadParts: the block decodes but into_request_parts refuses it.
DecodeOutcomes == {"Pending", "Ok", "Err", "BadParts"}

\* The state the Receiving branch leaves when the frame stream has ended
\* before any frame.
AfterEmptyRequest(rr) == rr

\* The state the Decoding branch leaves when the header decode fails: the `?`
\* returns before any assignment.
AfterDecodeError(rr) == rr

\* The code the Receiving branch resets the receive half with for a first
\* item p of the frame stream that is not a HEADERS frame.
FirstFrameCode(p) == IF p.poll = "Err" THEN p.code ELSE FRAME_UNEXPECTED

\* The outcome of <RecvRequest as Future>::poll on the request rr, p being
\* the answer of the frame stream and dec the answer of the header codec if
\* they are polled.
RecvRequestPollResult(rr, p, dec) ==
    LET decoding(r0, polled) ==
            CASE dec = "Pending" ->
                   [rr |-> r0, out |-> "Pending", polled |-> polled, reset |-> None,
                    triple |-> FALSE, decoded |-> TRUE]
              [] dec = "Err" ->
                   [rr |-> AfterDecodeError(r0), out |-> "Err:decode", polled |-> polled,
                    reset |-> None, triple |-> FALSE, decoded |-> TRUE]
              [] dec = "BadParts" ->
                   [rr |-> [r0 EXCEPT !.state = "Finished", !.streams = FALSE],
                    out |-> IF r0.streams THEN "Err:build" ELSE "Err:invalid state",
                    polled |-> polled, reset |-> None, triple |-> FALSE,
                    decoded |-> TRUE]
              [] OTHER ->
                   [rr |-> [r0 EXCEPT !.state = "Finished", !.streams = FALSE],
                    out |-> IF r0.streams THEN "Ok" ELSE "Err:invalid state",
                    polled |-> polled, reset |-> None, triple |-> r0.streams,
                    decoded |-> TRUE]
    IN  CASE rr.state = "Receiving" ->
               CASE p.poll = "Pending" ->
                      [rr |-> rr, out |-> "Pending", polled |-> TRUE, reset |-> None,
                       triple |-> FALSE, decoded |-> FALSE]
                 [] p.poll = "End" ->
                      [rr |-> AfterEmptyRequest(rr), out |-> "Err:empty", polled |-> TRUE,
                       reset |-> None, triple |-> FALSE, decoded |-> FALSE]
                 [] p.poll = "Frame" /\ p.frame[1].kind = "Headers" ->
                      decoding([rr EXCEPT !.state = "Decoding", !.streams = TRUE], TRUE)
                 [] OTHER ->
                      [rr |-> [rr EXCEPT !.state = "Finished"],
                       out |-> IF p.poll = "Err" THEN "Err:frame" ELSE "Err:unexpected",
                       polled |-> TRUE, reset |-> Some(FirstFrameCode(p)),
                       triple |-> FALSE, decoded |-> FALSE]
          [] rr.state = "Decoding" -> decoding(rr, FALSE)
          [] OTHER ->
               [rr |-> rr, out |-> "Err:polled after ready", polled |-> FALSE,
                reset |-> None, triple |-> FALSE, decoded |-> FALSE]

RecvRequestLive(s) == recvReq[s].state \in {"Receiving", "Decoding", "Finished"}

\* <RecvRequest as Future>::poll
RecvRequestPoll(s, dec) ==
    /\ RecvRequestLive(s)
    /\ \E p \in Arrivals(recvReq[s].rs) :
        LET res == RecvRequestPollResult(recvReq[s], p, dec)
            t   == recvReq[s].rs
            c   == IF res.polled THEN p.frame ELSE None
        IN  \* an answer that is not asked for is immaterial: one is enumerated
            /\ res.polled \/ p.poll = "End"
            /\ res.decoded \/ dec = "Pending"
            /\ recvReq' = [recvReq EXCEPT ![s] = res.rr]
            /\ recvd' = [recvd EXCEPT ![t] = IF res.polled THEN Yielded(@, p) ELSE @]
            /\ fin' = [fin EXCEPT ![t] = @ \/ (res.polled /\ p.poll = "End")]
            /\ recvReset' = [recvReset EXCEPT ![t] = @ \o res.reset]
            /\ reader' = IF res.triple
                         THEN [reader EXCEPT ![s] = NewBodyReader(t, FALSE)]
                         ELSE reader
            /\ sender' = IF res.triple THEN [sender EXCEPT ![s] = "Live"] ELSE sender
            /\ obs' = [obs EXCEPT
                 ![s].rlast = IF res.out = "Pending" THEN @ ELSE res.out,
                 ![s].triples = IF res.triple THEN @ + 1 ELSE @,
                 ![s].seen = @ \cup Sids(c)]
    /\ UNCHANGED <<sendHalf, conn, sched, writer>>

\* A RecvRequest::reject that leaves the send half open.
RejectResets_RecvOnly(rr) ==
    IF rr.state = "Receiving"
    THEN [recv |-> Some(REQUEST_REJECTED), send |-> None]
    ELSE [recv |-> None, send |-> None]

\* The resets RecvRequest::reject issues on (receive half, send half).
RejectResets(rr) ==
    IF rr.state = "Receiving"
    THEN [recv |-> Some(REQUEST_REJECTED), send |-> Some(REQUEST_REJECTED)]
    ELSE [recv |-> None, send |-> None]

\* RecvRequest::reject
RecvRequestReject(s) ==
    /\ RecvRequestLive(s)
    /\ recvReset' = [recvReset EXCEPT ![recvReq[s].rs] = @ \o RejectResets(recvReq[s]).recv]
    /\ sendReset' = [sendReset EXCEPT ![s] = @ \o RejectResets(recvReq[s]).send]
    /\ recvReq' = [recvReq EXCEPT ![s].state = "Dropped", ![s].streams = FALSE]
    /\ obs' = [obs EXCEPT ![s].rexit = "reject", ![s].rfrom = recvReq[s].state]
    /\ UNCHANGED <<recvd, fin, sent, sendFin, conn, sched, sender, reader, writer>>

\* A RecvRequest going out of scope.
RecvRequestDrop(s) ==
    /\ RecvRequestLive(s)
    /\ recvReq' = [recvReq EXCEPT ![s].state = "Dropped", ![s].streams = FALSE]
    /\ obs' = [obs EXCEPT ![s].rexit = "drop", ![s].rfrom = recvReq[s].state]
    /\ UNCHANGED <<recvHalf, sendHalf, conn, sched, sender, reader, writer>>

(* ----------------------------- Sender (server.rs) ---------------------- *)

\* The bodies a response is built with: Body::None or Body::Buf(payload).
Bodies == {None, Some(<<1>>)}

SendOutcomes == {"Ok", "ErrHead", "ErrBody"}

\* What Sender::send_response leaves in the writer slot: the BodyWriter that
\* owns the request's lifecycle on success, nothing when a send failed.
SendResponseWriter(w, out) == IF out = "Ok" THEN NewBodyWriter(None, TRUE) ELSE w

\* Sender::send_response: the head, the buffered body if any, then the writer.
SenderSendResponse(s, body, out) ==
    /\ sender[s] = "Live"
    /\ out = "ErrBody" => body # None
    /\ sent' = [sent EXCEPT ![s] = @
                 \o (IF out # "ErrHead" THEN <<HeadersFrame(s, "response")>> ELSE <<>>)
                 \o (IF out = "Ok" /\ body # None THEN <<DataFrame(s, body[1])>> ELSE <<>>)]
    /\ writer' = [writer EXCEPT ![s] = SendResponseWriter(@, out)]
    /\ sender' = [sender EXCEPT ![s] = "Gone"]
    /\ obs' = [obs EXCEPT ![s].sexit = out]
    /\ UNCHANGED <<recvHalf, sendFin, sendReset, conn, sched, recvReq, reader>>

\* Sender::cancel
SenderCancel(s) ==
    /\ sender[s] = "Live"
    /\ sendReset' = [sendReset EXCEPT ![s] = Append(@, REQUEST_REJECTED)]
    /\ sender' = [sender EXCEPT ![s] = "Gone"]
    /\ obs' = [obs EXCEPT ![s].sexit = "cancel"]
    /\ UNCHANGED <<recvHalf, sent, sendFin, conn, sched, recvReq, reader, writer>>

\* A Sender going out of scope: the type has no Drop impl.
SenderDrop(s) ==
    /\ sender[s] = "Live"
    /\ sender' = [sender EXCEPT ![s] = "Gone"]
    /\ obs' = [obs EXCEPT ![s].sexit = "drop"]
    /\ UNCHANGED <<recvHalf, sendHalf, conn, sched, recvReq, reader, writer>>

(* --------------------------- specifications ---------------------------- *)

Quiet ==
    /\ recvd = [t \in Streams |-> [frames |-> 0, bytes |-> 0, nondata |-> FALSE]]
    /\ fin = [t \in Streams |-> FALSE]
    /\ recvReset = [t \in Streams |-> <<>>]
    /\ sent = [t \in Streams |-> <<>>]
    /\ sendFin = [t \in Streams |-> FALSE]
    /\ sendReset = [t \in Streams |-> <<>>]
    /\ requests = <<>>
    /\ requests_task = None
    /\ acceptor = "Ready"
    /\ lock = None
    /\ task = NoTask
    /\ finished = [t \in Streams |-> 0]
    /\ recvReq = [t \in Streams |-> NoRecvRequest]
    /\ sender = [t \in Streams |-> "None"]
    /\ obs = [t \in Streams |-> NoObs]

\* The server after Connecting resolves: no stream accepted yet.
Init ==
    /\ Quiet
    /\ reader = [t \in Streams |-> NoReader]
    /\ writer = [t \in Streams |-> NoWriter]

ReaderOps ==
    \E s \in Streams :
        \/ \E n \in BufSizes : BodyReaderPollRead(s, n)
        \/ BodyReaderTrailers(s)
        \/ BodyReaderCancel(s)
        \/ BodyReaderDrop(s)

RecvBodyOps ==
    \E s \in Streams :
        \/ RecvBodyCancel(s)
        \/ RecvBodyIntoReader(s)
        \/ RecvBodyDrop(s)

WriterOps ==
    \E s \in Streams :
        \/ \E n \in BufSizes, io \in IoOutcomes : BodyWriterPollWrite(s, n, io)
        \/ \E io \in IoOutcomes : BodyWriterPollFlush(s, io)
        \/ \E io \in IoOutcomes : BodyWriterPollClose(s, io)
        \/ \E io \in IoOutcomes : BodyWriterClose(s, io)
        \/ \E io \in IoOutcomes : BodyWriterTrailers(s, "trailer", io)
        \/ BodyWriterCancel(s)
        \/ BodyWriterDrop(s)

RecvRequestOps ==
    \E s \in Streams :
        \/ \E dec \in DecodeOutcomes : RecvRequestPoll(s, dec)
        \/ RecvRequestReject(s)
        \/ RecvRequestDrop(s)

SenderOps ==
    \E s \in Streams :
        \/ \E body \in Bodies, out \in SendOutcomes : SenderSendResponse(s, body, out)
        \/ SenderCancel(s)
        \/ SenderDrop(s)

\* The server side of a connection: the driver enqueues the streams the peer
\* opens, and independently scheduled tasks accept the requests and read
\* their bodies, in any interleaving.
ConnOps ==
    \/ \E t \in Streams : DriverEnqueue(t)
    \/ IncomingRequestPollNext

Next == ConnOps \/ RecvRequestOps \/ ReaderOps

Spec == Init /\ [][Next]_vars

\* The acceptor side alone: the requests are enqueued, accepted and resolved,
\* rejected or dropped; the handles of a resolved request are left untouched.
NextAccept == ConnOps \/ RecvRequestOps

SpecAccept == Init /\ [][NextAccept]_vars

\* The acceptor as a scheduled task: it polls IncomingRequest when it runs,
\* and it runs unless it is parked on a Pending.
AcceptorRun == acceptor # "Parked" /\ IncomingRequestPollNext

\* The driver task and the single acceptor task under fair scheduling of the
\* acceptor: a runnable acceptor is eventually polled.
NextWake ==
    \/ \E t \in Streams : DriverEnqueue(t)
    \/ AcceptorRun
    \/ RecvRequestOps

SpecWake == Init /\ [][NextWake]_vars /\ WF_vars(AcceptorRun)

\* Stream t is the only stream the peer has opened.
Solo(t) == \A u \in Streams \ {t} : ~Accepted(u)

\* One request from its stream being accepted to its last handle going away:
\* acceptance, header decode, the body read and the response sent.
NextRequest ==
    \/ \E t \in Streams : Solo(t) /\ DriverEnqueue(t)
    \/ IncomingRequestPollNext
    \/ RecvRequestOps
    \/ ReaderOps
    \/ SenderOps
    \/ WriterOps

SpecRequest == Init /\ [][NextRequest]_vars

\* A body handle created directly on a stream, as the client side does: a
\* RecvBody or a BodyWriter, with or without the request-lifecycle
\* responsibility, and the writer with or without trailers to send on close.
InitBody ==
    /\ Quiet
    /\ \E t \in Streams, kind \in {"recv", "send"}, fr \in BOOLEAN,
          tr \in {None, Some("trailer")} :
        /\ kind = "recv" => tr = None
        /\ reader = [u \in Streams |-> IF u = t /\ kind = "recv"
                                       THEN NewRecvBody(t, fr) ELSE NoReader]
        /\ writer = [u \in Streams |-> IF u = t /\ kind = "send"
                                       THEN NewBodyWriter(tr, fr) ELSE NoWriter]

NextBody == RecvBodyOps \/ ReaderOps \/ WriterOps

SpecBody == InitBody /\ [][NextBody]_vars

\* A BodyWriter, after any writes of the application, awaited by a task for
\* flush() or close(): the executor polls the task when it is scheduled and
\* re-polls it only when its waker is woken; the transport completes every
\* operation it is given.
InitFlush ==
    /\ Quiet
    /\ reader = [u \in Streams |-> NoReader]
    /\ \E t \in Streams, fr \in BOOLEAN, tr \in {None, Some("trailer")} :
          writer = [u \in Streams |-> IF u = t THEN NewBodyWriter(tr, fr) ELSE NoWriter]

TaskRun == \E s \in Streams : TaskPoll(s)

NextFlush ==
    \/ \E s \in Streams, n \in BufSizes, io \in IoOutcomes :
          task.st = "Idle" /\ BodyWriterPollWrite(s, n, io)
    \/ \E s \in Streams, closing \in BOOLEAN : FlushStart(s, closing)
    \/ TaskRun
    \/ TransportComplete

SpecFlush == InitFlush /\ [][NextFlush]_vars /\ WF_vars(TaskRun) /\ WF_vars(TransportComplete)

(* ------------------------------ properties ----------------------------- *)

\* C1: a body handle created with finish_request has request_finished invoked
\* for its stream exactly once by the time it is gone through cancel, close,
\* trailers or drop, never before that, never twice, and never for another
\* stream.
C1_SingleFinish ==
    \A s \in Streams :
        LET ownerGone ==
                \/ /\ reader[s].h = "Gone"
                   /\ reader[s].finish_request
                   /\ obs[s].exit # "RecvBody::drop"
                \/ /\ writer[s].st = "Gone"
                   /\ writer[s].finish_request
        IN  finished[s] = IF ownerGone THEN 1 ELSE 0

\* A BodyReader owning the request was cancelled after a partial drain.
C1_Witness ==
    \E s \in Streams :
        /\ reader[s].h = "Gone"
        /\ reader[s].finish_request
        /\ obs[s].exit = "BodyReader::cancel"
        /\ obs[s].delivered # <<>>
        /\ ~fin[s]
        /\ finished[s] = 1

\* C2: once the triple of a request has been produced and the BodyReader, the
\* Sender and the BodyWriter (if any) are gone, request_finished has been
\* called exactly once for the request's stream.
C2_RequestFinishedOnce ==
    \A s \in Streams :
        ( /\ obs[s].triples = 1
          /\ reader[s].h = "Gone"
          /\ sender[s] = "Gone"
          /\ writer[s].st \in {"None", "Gone"} )
        => finished[s] = 1

\* C3: when the stream carried only DATA frames and then ended, the bytes
\* returned up to the first end-of-data report are the payloads in order.
C3_BodyFidelity ==
    \A s \in Streams :
        ( /\ reader[s].h = "BodyReader"
          /\ obs[s].eod
          /\ fin[reader[s].rs]
          /\ ~recvd[reader[s].rs].nondata )
        => obs[s].body = Bytes(1, recvd[reader[s].rs].bytes)

\* C4: a BodyReader that has not reported end-of-data answers trailers()
\* with None.
C4_TrailerGating ==
    \A s \in Streams :
        (reader[s].h = "BodyReader" /\ ~obs[s].eod)
        => TrailersResult(reader[s]) = None

\* C5: while a BodyReader retains a HEADERS frame, no step delivers further
\* payload bytes and no step replaces the retained frame by another one.
C5_HeadersTerminate ==
    [][\A s \in Streams :
          (reader[s].h = "BodyReader" /\ reader[s].trailers # None)
          => /\ obs'[s].delivered = obs[s].delivered
             /\ reader'[s].trailers \in {None, reader[s].trailers}]_vars

\* C6: cancel() on a RecvBody, on a BodyReader still holding its stream, or on
\* a BodyWriter in the idle or the writing state leaves exactly one reset on
\* the stream, carrying REQUEST_CANCELLED, and the cancelled handle neither
\* reads a frame from the stream nor writes one to it afterwards.
C6_CancelPropagation ==
    /\ [](\A s \in Streams :
            /\ (obs[s].exit \in {"RecvBody::cancel", "BodyReader::cancel"}
                    /\ obs[s].heldAtCancel)
               => recvReset[reader[s].rs] = <<REQUEST_CANCELLED>>
            /\ (obs[s].wexit = "cancel" /\ obs[s].wfrom \in {"Idle", "Writing"})
               => sendReset[s] = <<REQUEST_CANCELLED>>)
    /\ [][\A s \in Streams :
            /\ obs[s].exit \in {"RecvBody::cancel", "BodyReader::cancel"}
               => /\ recvd'[reader[s].rs] = recvd[reader[s].rs]
                  /\ obs'[s].delivered = obs[s].delivered
            /\ obs[s].wexit = "cancel"
               => sent'[s] = sent[s] /\ sendFin'[s] = sendFin[s]]_vars

\* A BodyWriter was cancelled with a frame in flight and the send half carries
\* the one reset.
C6_Witness ==
    \E s \in Streams :
        /\ obs[s].wexit = "cancel"
        /\ obs[s].wfrom = "Writing"
        /\ writer[s].st = "Gone"
        /\ sendReset[s] = <<REQUEST_CANCELLED>>

\* C7: reject() on a RecvRequest still in state Receiving resets the receive
\* half and the send half with REQUEST_REJECTED, and no triple is ever
\* produced for the stream.
C7_RejectIsolation ==
    \A s \in Streams :
        (obs[s].rexit = "reject" /\ obs[s].rfrom = "Receiving")
        => /\ recvReset[recvReq[s].rs] = <<REQUEST_REJECTED>>
           /\ sendReset[s] = <<REQUEST_REJECTED>>
           /\ obs[s].triples = 0
           /\ reader[s].h = "None"
           /\ sender[s] = "None"

\* A request was rejected in state Receiving while another request of the
\* connection had already produced its triple.
C7_Witness ==
    \E s, u \in Streams :
        /\ obs[s].rexit = "reject"
        /\ obs[s].rfrom = "Receiving"
        /\ sendReset[s] = <<REQUEST_REJECTED>>
        /\ obs[u].triples = 1

\* C8: every frame a request's RecvRequest or BodyReader has taken from a frame
\* stream was delivered on the request's own stream, and the handles of a
\* request poll the receive half of that stream only.
C8_StreamIsolation ==
    \A s \in Streams :
        /\ obs[s].seen \subseteq {s}
        /\ recvReq[s].state \in {"Receiving", "Decoding"} => recvReq[s].rs = s
        /\ reader[s].h \in {"RecvBody", "BodyReader"} => reader[s].rs = s

\* Two requests of one connection have both read body bytes.
C8_Witness ==
    \A s \in Streams :
        /\ obs[s].triples = 1
        /\ obs[s].seen = {s}
        /\ obs[s].delivered # <<>>

\* C9: a poll of a RecvRequest that ended with a first-frame error (wrong frame
\* type, frame decode error, end of stream before any frame) leaves the
\* machine terminal and the stream reset.
C9_FirstFrameError ==
    \A s \in Streams :
        obs[s].rlast \in {"Err:empty", "Err:frame", "Err:unexpected"}
        => /\ recvReq[s].state \in {"Finished", "Dropped"}
           /\ recvReset[s] # <<>>

\* C10: once poll has returned Ready the RecvRequest is in state Finished
\* (or has been consumed).
C10_TerminalAfterReady ==
    \A s \in Streams :
        obs[s].rlast # "none" => recvReq[s].state \in {"Finished", "Dropped"}

\* C11: poll_next yields the oldest pending request and removes it from the
\* queue, or, the queue being empty, stores the waker: every enqueued request
\* is yielded at most once, none is yielded while an older one is still
\* queued, and a waker is registered only over an empty queue.
C11_QueueDelivery ==
    /\ \A s \in Streams :
        /\ obs[s].yields <= 1
        /\ ~obs[s].overtook
        /\ obs[s].yields = 1 <=> recvReq[s].state # "None"
        /\ obs[s].yields = 1 => \A i \in 1..Len(requests) : requests[i].send # s
    /\ \A i, j \in 1..Len(requests) : requests[i] = requests[j] => i = j
    /\ requests_task # None => requests = <<>>

\* A request has been yielded while another one waits in the queue.
C11_Witness ==
    \E s \in Streams :
        /\ obs[s].yields = 1
        /\ recvReq[s].state = "Receiving"
        /\ requests # <<>>
        /\ \A i \in 1..Len(requests) : requests[i].send # s

\* C12: the queue is never non-empty while the acceptor is parked, and under
\* fair scheduling of the acceptor every enqueued request is eventually
\* yielded by poll_next.
C12_NoMissedWakeup ==
    /\ [](requests # <<>> => acceptor # "Parked")
    /\ \A t \in Streams :
         (\E i \in 1..Len(requests) : requests[i].send = t)
         ~> (obs[t].yields = 1)

\* The driver has enqueued a request over a parked acceptor and woken it.
C12_Witness ==
    /\ acceptor = "Woken"
    /\ requests # <<>>
    /\ requests_task = None

C14_WriteSequencing ==
    \A s \in Streams :
        WriterLive(s)
        => \A n \in BufSizes :
              LET res == PollWrite(writer[s], n, "Ready")
              IN  res.out = "Ok"
                  => /\ res.n = n
                     /\ res.wrote = Some(Bytes(1, n))

\* C15: a poll_read that meets a frame decode error or a frame that is
\* neither DATA nor HEADERS returns an error, delivers no bytes and resets
\* the stream, with the error's own code or with FRAME_UNEXPECTED; the reader
\* lets go of the stream, so that no later call resets it again.
C15_ProtocolViolation ==
    \A s \in Streams :
        LET t == reader[s].rs
        IN  /\ (reader[s].h = "BodyReader" /\ reader[s].recv)
               => \A n \in BufSizes, p \in Arrivals(t) :
                     LET res == PollRead(reader[s], n, p)
                         bad == \/ p.poll = "Err"
                                \/ p.poll = "Frame"
                                   /\ p.frame[1].kind \notin {"Data", "Headers"}
                     IN  (res.polled /\ bad)
                         => /\ res.out = "Err"
                            /\ res.bytes = <<>>
                            /\ ~res.r.recv
                            /\ res.reset = IF p.poll = "Err" THEN <<p.code>>
                                           ELSE <<"FRAME_UNEXPECTED">>
            /\ (reader[s].h = "BodyReader" /\ ~reader[s].recv)
               => /\ recvReset[t] \in {<<"FRAME_UNEXPECTED">>, <<"FRAME_ERROR">>}
                  /\ CancelReset(reader[s]) = None
                  /\ \A n \in BufSizes, p \in Arrivals(t) :
                        PollRead(reader[s], n, p).reset = None
            /\ (obs[s].exit = "BodyReader::cancel" /\ ~obs[s].heldAtCancel)
               => Len(recvReset[t]) = 1

\* A reader that had delivered bytes met a frame of another type and was
\* cancelled afterwards: the stream carries the one reset.
C15_Witness ==
    \E s \in Streams :
        /\ obs[s].exit = "BodyReader::cancel"
        /\ ~obs[s].heldAtCancel
        /\ obs[s].delivered # <<>>
        /\ recvReset[reader[s].rs] = <<"FRAME_UNEXPECTED">>

C17_LockNotHeldAcrossSuspension ==
    /\ lock = None
    /\ acceptor = "Parked" => lock # Some("acceptor")
    /\ \A s \in Streams : finished[s] > 0 => lock # Some("handle")

\* The acceptor is parked on the empty queue after a BodyWriter owning its
\* request has released the request's bookkeeping.
C17_Witness ==
    /\ acceptor = "Parked"
    /\ requests_task # None
    /\ lock = None
    /\ \E s \in Streams : finished[s] = 1 /\ writer[s].st = "Gone"

\* C18: a poll_read with a non-empty buffer on a reader whose residual buffer
\* is empty and whose frame stream answers Pending does not return an error.
C18_ReadSuspends ==
    \A s \in Streams :
        (reader[s].h = "BodyReader" /\ reader[s].recv /\ reader[s].buf = None
            /\ ~fin[reader[s].rs])
        => \A n \in BufSizes \ {0} :
              PollRead(reader[s], n,
                       [poll |-> "Pending", frame |-> None, code |-> ""]).out # "Err"

\* C19: a poll_read with a non-empty buffer reports end-of-data for the first
\* time only in a step in which the frame stream has ended or a HEADERS frame
\* has been received.
C19_EndOfDataOnlyAtEnd ==
    [][\A s \in Streams :
          (reader[s].h = "BodyReader" /\ ~obs[s].eod /\ obs'[s].eod)
          => \/ fin'[reader[s].rs]
             \/ /\ reader'[s].trailers # None
                /\ reader'[s].trailers # reader[s].trailers]_vars

\* C20: a live writer becomes Finished only in a step that finishes the
\* stream (a completed poll_close); a completed poll_flush leaves it idle.
C20_FlushKeepsIdle ==
    [][\A s \in Streams :
          (writer[s].st \in {"Idle", "Writing"} /\ writer'[s].st = "Finished")
          => sendFin'[s]]_vars

\* C22: a poll_read issued on a BodyReader, whatever came before it, finds
\* the frame stream in place when it polls it: the unwrap of self.recv does
\* not fail, for any buffer length and any answer of the transport.
C22_ReadAfterErrorReturns ==
    \A s \in Streams :
        reader[s].h = "BodyReader"
        => \A n \in BufSizes : \A p \in Arrivals(reader[s].rs) :
              PollRead(reader[s], n, p).err # "unwrap"

\* C23: the assertion of buf_put never fails: whenever poll_read polls the
\* frame stream, buf_read has left the residual buffer empty, for every
\* buffer length and every answer of the transport.  The residual buffer
\* holds bytes of one DATA frame only: it is filled, in a step that receives
\* a DATA frame, with a tail of that frame's payload, and afterwards it is
\* only drained from the front.
C23_ResidualAssertion ==
    /\ [](\A s \in Streams :
            reader[s].h = "BodyReader"
            => /\ \A n \in BufSizes : \A p \in Arrivals(reader[s].rs) :
                    LET res == PollRead(reader[s], n, p)
                    IN  /\ res.err # "assert"
                        /\ res.polled => BufRead(reader[s].buf, n).buf = None
               /\ reader[s].buf # None
                  => /\ Len(reader[s].buf[1]) <= MaxPayload
                     /\ reader[s].buf[1] =
                          Bytes(recvd[reader[s].rs].bytes - Len(reader[s].buf[1]) + 1,
                                recvd[reader[s].rs].bytes))
    /\ [][\A s \in Streams :
            (reader[s].h = "BodyReader" /\ reader'[s].buf # None
                /\ reader'[s].buf # reader[s].buf)
            => LET t     == reader[s].rs
                   frame == Bytes(recvd[t].bytes + 1, recvd'[t].bytes)
                   old   == IF reader[s].buf = None THEN <<>> ELSE reader[s].buf[1]
                   new   == reader'[s].buf[1]
               IN  IF recvd'[t].frames = recvd[t].frames
                   THEN \* no frame received: the buffer is drained from the front
                        /\ new # <<>>
                        /\ \E k \in 1..Len(old) : new = SubSeq(old, k + 1, Len(old))
                   ELSE \* a DATA frame received: a tail of its payload alone
                        /\ recvd'[t].frames = recvd[t].frames + 1
                        /\ \E k \in 0..Len(frame) :
                              new = SubSeq(frame, k + 1, Len(frame))]_vars

\* The tail of a second DATA frame sits in the residual buffer, the tail of
\* the first one having been put there and drained before.
C23_Witness ==
    \E s \in Streams :
        /\ reader[s].h = "BodyReader"
        /\ recvd[reader[s].rs] = [frames |-> 2, bytes |-> 4, nondata |-> FALSE]
        /\ obs[s].delivered = <<1, 2, 3>>
        /\ reader[s].buf = Some(<<4>>)

\* C21: a task awaiting flush() or close() on a BodyWriter is never suspended
\* without its waker being held by the transport, and, the transport
\* completing every operation and the task being polled when scheduled or
\* woken, every such await eventually returns Ready.
C21_FlushLiveness ==
    /\ [](task.st = "Parked" => task.waker)
    /\ (task.st = "Run") ~> (task.st = "Done")
=============================================================================
